---- MODULE Spec2Model ----
(***************************************************************************)
(* Clash-report exporters of ExportXmlToExcel: export_xml_to_excel_v6.py   *)
(* and export_xml_to_word_v4.py (with get_item_details of                  *)
(* export_xml_to_excel_v4.py for comparison).                              *)
(*                                                                         *)
(* Three specifications share the variables:                              *)
(*   Spec      the parsed document and one export run over it              *)
(*   SpecItem  get_item_details on one clashobject                         *)
(*   SpecImage find_image_file on one reference and one file system        *)
(*                                                                         *)
(* A document is the element tree in document (pre-order) order: doc[i] is *)
(* the i-th element, doc[i].parent the index of its parent (0 for the      *)
(* root).  The root is the <exchange> container of the clash report format;*)
(* every other element is a clashtest, a clashresult, a clashobject or an  *)
(* element of a tag the exporters do not search for ("other": clashresults,*)
(* clashobjects, ...), at any nesting.  An optional attribute is <<>> when absent and <<v>> when  *)
(* present with value v.  A clashobject stands for the element with its    *)
(* smarttag subtree: doc[i].tags is the sequence of its smarttags.         *)
(*                                                                         *)
(* A text (the content of a <name> or <value> element) is a sequence of    *)
(* tokens; the token " " is one whitespace character, any other token is a *)
(* block of characters that begins and ends with a non-whitespace one.     *)
(* The token "\n" is a line break; it occurs only at the ends of a text    *)
(* (pretty-printed XML): the content of a <name> or <value> is one line.   *)
(***************************************************************************)
EXTENDS Integers, Sequences, FiniteSets, TLC

VARIABLES
    doc,        \* the parsed element tree (Spec)
    pc,         \* position of the run: "parse", "read", "scan", "excel", "word", "item", "image", "done"
    ws,         \* rows of the "Clash Report" sheet / of the Word table
    cp,         \* rows of the "Clash_Points" sheet
    obj,        \* the clashobject handed to get_item_details (SpecItem)
    item_v6,    \* result of get_item_details, v6 / Word v4
    item_v4,    \* result of get_item_details, Excel v4
    href_raw,   \* the image reference (SpecImage): <<>> for None, else <<chars>>
    xml_dir,    \* xml_path.parent
    fs,         \* the absolute paths that exist on disk
    resolve_raises, \* whether Path.resolve() raises in this run
    img,        \* result of find_image_file: [path, probes]
    short_v6,   \* result of get_item_name_short (v6, Word v4) on item_v6
    short_v4,   \* result of short_item_name (Excel v4) on item_v4
    source,     \* the XML file of a run: "missing", "malformed" or "wellformed"
    results,    \* the clashresult elements of the document, in document order (SpecRun)
    outcome,    \* how the run ended: "" (not yet), "returned", or the exception raised
    written,    \* whether the output file was written (wb.save / doc.save)
    elements,   \* discover_fields: the sorted element paths (SpecDiscover)
    attributes, \* discover_fields: the sorted attribute paths
    temp_images,    \* the temporary images the run remembered for its cleanup (SpecTemp)
    tmp_disk,   \* the temporary image files on disk
    last_path_file, \* content of last_path.txt: <<>> (no file) or <<folder>> (SpecGui)
    status_var, \* the folder shown by the status label, "(none)" when there is none
    click       \* the inputs and the course of the latest do_export call

shortVars == <<short_v6, short_v4>>
runVars == <<source, results, outcome, written>>
toolVars == <<elements, attributes, temp_images, tmp_disk, last_path_file,
              status_var, click>>

vars == <<doc, pc, ws, cp, obj, item_v6, item_v4, href_raw, xml_dir, fs,
          resolve_raises, img, short_v6, short_v4, source, results, outcome,
          written, elements, attributes, temp_images, tmp_disk, last_path_file,
          status_var, click>>

(***************************************************************************)
(* Bounds                                                                  *)
(***************************************************************************)
MaxNodes == 3       \* elements below the root
MaxTags == 2        \* smarttags of one clashobject
MaxHrefLen == 3     \* characters of an image reference

(***************************************************************************)
(* Texts                                                                   *)
(***************************************************************************)
\* str.isspace() on one token: a blank or a line break
is_space(c) == c \in {" ", "\n"}

RECURSIVE lstrip(_)
lstrip(t) == IF t # <<>> /\ is_space(Head(t)) THEN lstrip(Tail(t)) ELSE t

RECURSIVE rstrip(_)
rstrip(t) ==
    IF t # <<>> /\ is_space(t[Len(t)]) THEN rstrip(SubSeq(t, 1, Len(t) - 1)) ELSE t

\* str.strip()
strip(t) == rstrip(lstrip(t))

\* the Python string a token sequence spells
RECURSIVE Str(_)
Str(t) == IF t = <<>> THEN "" ELSE Head(t) \o Str(Tail(t))

\* "sep".join(parts) on token sequences
RECURSIVE join(_, _)
join(sep, parts) ==
    IF parts = <<>> THEN <<>>
    ELSE IF Len(parts) = 1 THEN parts[1]
    ELSE parts[1] \o sep \o join(sep, Tail(parts))

\* "\n".join(lines) on Python strings
RECURSIVE join_lines(_)
join_lines(lines) ==
    IF lines = <<>> THEN ""
    ELSE IF Len(lines) = 1 THEN lines[1]
    ELSE lines[1] \o "\n" \o join_lines(Tail(lines))

\* filter(None, parts): the non-empty parts, in order
filter_nonempty(parts) == SelectSeq(parts, LAMBDA x : x # <<>>)

(***************************************************************************)
(* Smarttags: [name, value], each <<>> (no such child element) or <<text>> *)
(***************************************************************************)
\* st.findtext(field, "")
findtext(st, field) == IF st[field] = <<>> THEN <<>> ELSE st[field][1]

\* dict.get(k, default)
dict_get(d, k, default) == IF k \in DOMAIN d THEN d[k] ELSE default

\* d[k] = v
dict_set(d, k, v) == [x \in DOMAIN d \cup {k} |-> IF x = k THEN v ELSE d[x]]

EmptyDict == [x \in {} |-> <<>>]

\* the tags loop of get_item_details keeping the first occurrence of a name
RECURSIVE resolve_tags_first_wins(_, _)
resolve_tags_first_wins(sts, tags) ==
    IF sts = <<>> THEN tags
    ELSE LET name == strip(findtext(Head(sts), "name"))
             val == strip(findtext(Head(sts), "value"))
         IN  resolve_tags_first_wins(Tail(sts),
                 IF name # <<>> /\ Str(name) \notin DOMAIN tags
                 THEN dict_set(tags, Str(name), val)
                 ELSE tags)

\* the tags loop of get_item_details (v6, Word v4): tags[name] = val if name
RECURSIVE resolve_tags(_, _)
resolve_tags(sts, tags) ==
    IF sts = <<>> THEN tags
    ELSE LET name == strip(findtext(Head(sts), "name"))
             val == strip(findtext(Head(sts), "value"))
         IN  resolve_tags(Tail(sts),
                 IF name # <<>> THEN dict_set(tags, Str(name), val) ELSE tags)

\* the Item Type line without the filter and without the strip
type_line_unfiltered(part, itype) == part \o <<" ">> \o itype

\* type_line = " ".join(filter(None, [part, itype])).strip()
type_line_of(part, itype) == strip(join(<<" ">>, filter_nonempty(<<part, itype>>)))

\* the pipe line without the strip
pipe_line_unstripped(inner, outer) ==
    <<"Pipe", " ">> \o inner \o <<" ", "x", " ">> \o outer

\* f"Pipe {inner} x {outer}".strip()
pipe_line_of(inner, outer) ==
    strip(<<"Pipe", " ">> \o inner \o <<" ", "x", " ">> \o outer)

\* the lines list of get_item_details with Item Type appended before Network
item_line_tokens_type_first(clash_object) ==
    LET tags == resolve_tags(clash_object, EmptyDict)
        name == dict_get(tags, "Item Name", <<>>)
        net == dict_get(tags, "Civil3D General:Network name", <<>>)
        part == dict_get(tags, "Civil3D General:Part Size Name", <<>>)
        itype == dict_get(tags, "Item Type", <<>>)
        type_line == type_line_of(part, itype)
        inner == dict_get(tags, "Civil3D General:Inner Diameter or Width", <<>>)
        outer == dict_get(tags, "Civil3D General:Outer Diameter or Width", <<>>)
    IN  (IF name # <<>> THEN <<<<"Item Name:", " ">> \o name>> ELSE <<>>)
        \o (IF type_line # <<>> THEN <<<<"Item Type:", " ">> \o type_line>> ELSE <<>>)
        \o (IF net # <<>> THEN <<<<"Network:", " ">> \o net>> ELSE <<>>)
        \o (IF inner # <<>> \/ outer # <<>> THEN <<pipe_line_of(inner, outer)>> ELSE <<>>)

\* the lines list of get_item_details (v6, Word v4), each line a token sequence
item_line_tokens(clash_object) ==
    LET tags == resolve_tags(clash_object, EmptyDict)
        name == dict_get(tags, "Item Name", <<>>)
        net == dict_get(tags, "Civil3D General:Network name", <<>>)
        part == dict_get(tags, "Civil3D General:Part Size Name", <<>>)
        itype == dict_get(tags, "Item Type", <<>>)
        type_line == type_line_of(part, itype)
        inner == dict_get(tags, "Civil3D General:Inner Diameter or Width", <<>>)
        outer == dict_get(tags, "Civil3D General:Outer Diameter or Width", <<>>)
    IN  (IF name # <<>> THEN <<<<"Item Name:", " ">> \o name>> ELSE <<>>)
        \o (IF net # <<>> THEN <<<<"Network:", " ">> \o net>> ELSE <<>>)
        \o (IF type_line # <<>> THEN <<<<"Item Type:", " ">> \o type_line>> ELSE <<>>)
        \o (IF inner # <<>> \/ outer # <<>> THEN <<pipe_line_of(inner, outer)>> ELSE <<>>)

\* the lines list of get_item_details (v6, Word v4), each line a Python string
item_lines(clash_object) ==
    [k \in 1..Len(item_line_tokens(clash_object)) |->
        Str(item_line_tokens(clash_object)[k])]

\* the summary of get_item_details as one token sequence, lines joined by "\n"
summary_tokens(clash_object) == join(<<"\n">>, item_line_tokens(clash_object))

\* get_item_details (v6, Word v4) on a clashobject element
get_item_details(clash_object) == join_lines(item_lines(clash_object))

\* the data loop of get_item_details (Excel v4): only the six known names,
\* only when name and value are both non-empty
RECURSIVE resolve_data_v4(_, _)
resolve_data_v4(sts, data) ==
    IF sts = <<>> THEN data
    ELSE LET name == Str(strip(findtext(Head(sts), "name")))
             value == strip(findtext(Head(sts), "value"))
             key == CASE name = "Item Name" -> "itemName"
                      [] name = "Civil3D General:Network name" -> "network"
                      [] name = "Civil3D General:Part Size Name" -> "partSize"
                      [] name = "Item Type" -> "itemType"
                      [] name = "Civil3D General:Inner Diameter or Width" -> "inner"
                      [] name = "Civil3D General:Outer Diameter or Width" -> "outer"
                      [] OTHER -> ""
         IN  resolve_data_v4(Tail(sts),
                 IF name = "" \/ value = <<>> \/ key = "" THEN data
                 ELSE dict_set(data, key, value))

\* the lines list of get_item_details (Excel v4), each line a token sequence
item_line_tokens_v4(clash_object) ==
    LET data == resolve_data_v4(clash_object, EmptyDict)
        type_line1 == join(<<" ">>, filter_nonempty(
                          <<dict_get(data, "partSize", <<>>), dict_get(data, "itemType", <<>>)>>))
        inner == dict_get(data, "inner", <<>>)
        outer == dict_get(data, "outer", <<>>)
        type_line2 == IF inner # <<>> \/ outer # <<>>
                      THEN strip(<<"Pipe", " ">> \o inner \o <<" ", "x", " ">> \o outer)
                      ELSE <<>>
        itemName == dict_get(data, "itemName", <<>>)
        network == dict_get(data, "network", <<>>)
    IN  (IF itemName # <<>> THEN <<<<"Item Name:", " ">> \o itemName>> ELSE <<>>)
        \o (IF network # <<>> THEN <<<<"Network:", " ">> \o network>> ELSE <<>>)
        \o (IF type_line1 # <<>> THEN <<<<"Item Type:", " ">> \o type_line1>> ELSE <<>>)
        \o (IF type_line2 # <<>> THEN <<type_line2>> ELSE <<>>)

\* the summary of get_item_details (Excel v4) as one token sequence
summary_tokens_v4(clash_object) == join(<<"\n">>, item_line_tokens_v4(clash_object))

\* get_item_details (Excel v4)
get_item_details_v4(clash_object) == Str(summary_tokens_v4(clash_object))

(***************************************************************************)
(* The short name of an item.  A summary is a token sequence; no token of  *)
(* the texts other than "Item Name:" itself begins with or contains the    *)
(* characters "Item Name:", so startswith and replace act on whole tokens. *)
(***************************************************************************)
\* text.splitlines(): the segments between line breaks; cur is the line being read
RECURSIVE splitlines_from(_, _)
splitlines_from(text, cur) ==
    IF text = <<>> THEN (IF cur = <<>> THEN <<>> ELSE <<cur>>)
    ELSE IF Head(text) = "\n" THEN <<cur>> \o splitlines_from(Tail(text), <<>>)
    ELSE splitlines_from(Tail(text), Append(cur, Head(text)))

splitlines(text) == splitlines_from(text, <<>>)

\* line.startswith("Item Name:")
starts_with_item_name(line) == line # <<>> /\ Head(line) = "Item Name:"

\* line.replace("Item Name:", ""): every occurrence is removed
replace_item_name(line) == SelectSeq(line, LAMBDA c : c # "Item Name:")

\* the value part of an "Item Name:" line: line.replace("Item Name:", "").strip()
item_name_of_line(line) == strip(replace_item_name(line))

\* the first line that starts with "Item Name:", as <<line>>, or <<>>
RECURSIVE first_item_name_line(_)
first_item_name_line(lines) ==
    IF lines = <<>> THEN <<>>
    ELSE IF starts_with_item_name(Head(lines)) THEN <<Head(lines)>>
    ELSE first_item_name_line(Tail(lines))

\* get_item_name_short (v6, Word v4)
get_item_name_short(text) ==
    LET lines == splitlines(text)
        hit == first_item_name_line(lines)
        first == IF text # <<>> THEN lines[1] ELSE <<>>
    IN  IF hit # <<>> THEN Str(item_name_of_line(hit[1]))
        ELSE IF first # <<>> THEN Str(first) ELSE "Unknown"

\* short_item_name (Excel v4)
short_item_name(item_details) ==
    LET lines == splitlines(item_details)
        hit == first_item_name_line(lines)
    IN  IF hit # <<>> THEN Str(item_name_of_line(hit[1]))
        ELSE IF item_details # <<>> THEN Str(lines[1]) ELSE "Unknown"

(***************************************************************************)
(* The element tree                                                        *)
(***************************************************************************)
\* attribute lookup elem.get(attr, default) on an optional attribute value
attr_get(a, default) == IF a = <<>> THEN default ELSE a[1]

\* a is a proper ancestor of j in document d
RECURSIVE IsAncestor(_, _, _)
IsAncestor(d, a, j) ==
    /\ j > a
    /\ \/ d[j].parent = a
       \/ d[j].parent > a /\ IsAncestor(d, a, d[j].parent)

\* elem.findall("tag"): only the children of e with that tag
findall_children(d, e, tag) ==
    SelectSeq([i \in 1..Len(d) |-> i],
              LAMBDA j : d[j].tag = tag /\ d[j].parent = e)

\* elem.findall(".//tag"): the elements below e with that tag, in document order
findall(d, e, tag) ==
    SelectSeq([i \in 1..Len(d) |-> i],
              LAMBDA j : d[j].tag = tag /\ IsAncestor(d, e, j))

Root == 1

\* some result below test carries guid (the inner loop's condition, with its break)
test_has_guid(d, test, clash_guid) ==
    \E k \in 1..Len(findall(d, test, "clashresult")) :
        LET cr == findall(d, test, "clashresult")[k]
        IN  /\ clash_guid # <<>> /\ clash_guid[1] # ""
            /\ d[cr].guid = clash_guid

\* the clashtest scan without the truthiness test on the target's guid
RECURSIVE group_scan_no_guid_test(_, _, _, _)
group_scan_no_guid_test(d, tests, clash_guid, clash_group) ==
    IF tests = <<>> THEN clash_group
    ELSE LET test == Head(tests)
             hit == \E k \in 1..Len(findall(d, test, "clashresult")) :
                        d[findall(d, test, "clashresult")[k]].guid = clash_guid
             g == IF hit THEN attr_get(d[test].name, "Unknown Group") ELSE clash_group
         IN  IF g # "Unknown Group" THEN g
             ELSE group_scan_no_guid_test(d, Tail(tests), clash_guid, g)

\* the clashtest scan of export_to_excel / export_to_word: for each test in
\* document order, the first matching result sets clash_group and leaves the
\* inner loop; the outer loop is left once clash_group differs from "Unknown Group"
RECURSIVE group_scan(_, _, _, _)
group_scan(d, tests, clash_guid, clash_group) ==
    IF tests = <<>> THEN clash_group
    ELSE LET test == Head(tests)
             g == IF test_has_guid(d, test, clash_guid)
                  THEN attr_get(d[test].name, "Unknown Group")
                  ELSE clash_group
         IN  IF g # "Unknown Group" THEN g
             ELSE group_scan(d, Tail(tests), clash_guid, g)

\* the group of a Clash Report row
clash_group_of(d, clash) ==
    group_scan(d, findall(d, Root, "clashtest"), d[clash].guid, "Unknown Group")

\* the group of a Clash_Points row: the first clashtest, in document order,
\* whose results include the clash element itself
RECURSIVE group_by_containment(_, _, _)
group_by_containment(d, tests, clash) ==
    IF tests = <<>> THEN "Unknown Group"
    ELSE IF IsAncestor(d, Head(tests), clash)
         THEN attr_get(d[Head(tests)].name, "Unknown Group")
         ELSE group_by_containment(d, Tail(tests), clash)

\* objs taken from the children of the result only
clash_objs_children(d, clash) == findall_children(d, clash, "clashobject")

\* objs = clash.findall(".//clashobject")
clash_objs(d, clash) == findall(d, clash, "clashobject")

\* item n of a row with the placeholder of the earlier exporters
item_text_placeholder(d, clash, n) ==
    LET objs == clash_objs(d, clash)
    IN  IF Len(objs) > n - 1 THEN get_item_details(d[objs[n]].tags) ELSE "Unknown"

\* item n of a row: get_item_details(objs[n-1]) if len(objs) > n-1 else ""
item_text(d, clash, n) ==
    LET objs == clash_objs(d, clash)
    IN  IF Len(objs) > n - 1 THEN get_item_details(d[objs[n]].tags) ELSE ""

\* clashes = root.findall(".//clashresult")
clashes_of(d) == findall(d, Root, "clashresult")

\* the Clash Report rows written by the first loop of export_to_excel
report_rows(d) ==
    LET clashes == clashes_of(d)
    IN  [i \in 1..Len(clashes) |->
            [rfi |-> i,
             elem |-> clashes[i],
             clash_group |-> clash_group_of(d, clashes[i]),
             item1_text |-> item_text(d, clashes[i], 1),
             item2_text |-> item_text(d, clashes[i], 2)]]

\* the Clash_Points rows written by the second loop of export_to_excel
points_rows(d) ==
    LET clashes == clashes_of(d)
    IN  [i \in 1..Len(clashes) |->
            [id |-> i,
             elem |-> clashes[i],
             clash_group |-> group_by_containment(d, findall(d, Root, "clashtest"),
                                                  clashes[i])]]

\* the table rows added by export_to_word
word_rows(d) ==
    LET clashes == clashes_of(d)
    IN  [i \in 1..Len(clashes) |->
            [rfi |-> ToString(i),
             elem |-> clashes[i],
             clash_group |-> clash_group_of(d, clashes[i]),
             item1_text |-> item_text(d, clashes[i], 1),
             item2_text |-> item_text(d, clashes[i], 2)]]

(***************************************************************************)
(* Paths (pathlib, POSIX flavour): [root, parts] with root "", "/" or "//" *)
(* A reference is a sequence of one-character strings.                     *)
(***************************************************************************)
\* href_raw.replace("\\", "/")
replace_backslash(h) == [i \in 1..Len(h) |-> IF h[i] = "\\" THEN "/" ELSE h[i]]

\* number of leading "/" characters
RECURSIVE leading_slashes(_)
leading_slashes(h) ==
    IF h # <<>> /\ Head(h) = "/" THEN 1 + leading_slashes(Tail(h)) ELSE 0

\* the non-empty segments between "/" characters; cur is the segment being read
RECURSIVE split_parts(_, _)
split_parts(h, cur) ==
    IF h = <<>> THEN (IF cur = "" THEN <<>> ELSE <<cur>>)
    ELSE IF Head(h) = "/"
         THEN (IF cur = "" THEN <<>> ELSE <<cur>>) \o split_parts(Tail(h), "")
         ELSE split_parts(Tail(h), cur \o Head(h))

\* Path(href)
Path(h) ==
    [root |-> CASE leading_slashes(h) = 0 -> ""
                [] leading_slashes(h) = 2 -> "//"
                [] OTHER -> "/",
     parts |-> split_parts(h, "")]

\* p.is_absolute()
is_absolute(p) == p.root # ""

\* p / q for a path q
path_join(p, q) ==
    IF q.root # "" THEN q ELSE [root |-> p.root, parts |-> p.parts \o q.parts]

\* p / name for a single segment (or the empty string)
path_child(p, name) ==
    IF name = "" THEN p ELSE [root |-> p.root, parts |-> p.parts \o <<name>>]

\* p.name
path_name(p) == IF p.parts = <<>> THEN "" ELSE p.parts[Len(p.parts)]

\* the current working directory of the run
Cwd == <<"b">>

\* the absolute location a path denotes ("//x" and "/x" are the same file)
abs_parts(p) == IF p.root = "" THEN Cwd \o p.parts ELSE p.parts

\* cand.resolve(), falling back to cand when resolve raises
resolve(p, raises) ==
    IF raises THEN p ELSE [root |-> "/", parts |-> abs_parts(p)]

\* p.exists()
exists(p, files) == abs_parts(p) \in files

\* the candidates list of find_image_file, in order
candidates(href, dir) ==
    LET p == Path(href)
        fname == path_name(Path(href))
    IN  (IF is_absolute(p) THEN <<p>> ELSE <<>>)
        \o <<path_join(dir, Path(href)),
             path_child(dir, fname),
             path_child(path_child(dir, "ELV_files"), fname)>>

\* the loop probing every candidate and returning the first that existed
RECURSIVE probe_all(_, _, _, _)
probe_all(cands, probed, files, raises) ==
    IF cands = <<>> THEN [path |-> <<>>, probes |-> probed]
    ELSE LET r == resolve(Head(cands), raises)
             rest == probe_all(Tail(cands), probed \o <<Head(cands)>>, files,
                               raises)
         IN  IF exists(r, files) THEN [path |-> <<r>>, probes |-> rest.probes]
             ELSE rest

\* the for loop of find_image_file: resolve, probe, return the first that exists
RECURSIVE probe_loop(_, _, _, _)
probe_loop(cands, probed, files, raises) ==
    IF cands = <<>> THEN [path |-> <<>>, probes |-> probed]
    ELSE LET r == resolve(Head(cands), raises)
         IN  IF exists(r, files)
             THEN [path |-> <<r>>, probes |-> probed \o <<Head(cands)>>]
             ELSE probe_loop(Tail(cands), probed \o <<Head(cands)>>, files,
                             raises)

\* find_image_file without the "if not href_raw" guard
find_image_file_no_guard(h_raw, dir, files, raises) ==
    LET href == strip(replace_backslash(attr_get(h_raw, <<>>)))
    IN  probe_loop(candidates(href, dir), <<>>, files, raises)

\* find_image_file(href_raw, xml_path): [path, probes]; path <<>> is None
find_image_file(h_raw, dir, files, raises) ==
    IF h_raw = <<>> \/ h_raw[1] = <<>> THEN [path |-> <<>>, probes |-> <<>>]
    ELSE LET href == strip(replace_backslash(h_raw[1]))
         IN  probe_loop(candidates(href, dir), <<>>, files, raises)

(***************************************************************************)
(* Input universes                                                         *)
(***************************************************************************)
GroupNames == {<<>>, <<"A">>, <<"B">>, <<"Unknown Group">>}
Guids == {<<>>, <<"">>, <<"g">>, <<"h">>}
ObjChoices ==
    {<<>>, <<[name |-> <<<<"Item Name">>>>, value |-> <<<<"P1">>>>]>>}

NameTexts ==
    {<<>>, <<<<" ">>>>, <<<<"Item Name">>>>, <<<<" ", "Item Name">>>>,
     <<<<"Item Type">>>>, <<<<"Civil3D General:Part Size Name">>>>,
     <<<<"Civil3D General:Network name">>>>,
     <<<<"Civil3D General:Inner Diameter or Width">>>>,
     <<<<"Civil3D General:Outer Diameter or Width">>>>, <<<<"Other">>>>}
ValueTexts == {<<>>, <<<<" ">>>>, <<<<"A">>>>, <<<<"B">>>>, <<<<"A", " ">>>>}

Chars == {"a", "b", "/", "\\", " "}
Hrefs == {<<>>} \cup {<<h>> : h \in UNION {[1..n -> Chars] : n \in 0..MaxHrefLen}}
XmlDirs == {[root |-> "/", parts |-> <<"a">>], [root |-> "", parts |-> <<"a">>],
            [root |-> "", parts |-> <<>>]}

\* a set of paths with every ancestor directory
prefix_closure(X) == {SubSeq(q, 1, n) : <<q, n>> \in {x \in X \X (0..MaxHrefLen + 3) : x[2] <= Len(x[1])}}

\* the places on disk the candidates of a reference denote
candidate_places(h_raw, dir) ==
    LET cands == candidates(strip(replace_backslash(attr_get(h_raw, <<>>))), dir)
    IN  {abs_parts(cands[k]) : k \in 1..Len(cands)}

RootElem == [tag |-> "exchange", parent |-> 0, name |-> <<>>, guid |-> <<>>, tags |-> <<>>]

Idle == [path |-> <<>>, probes |-> <<>>]

(***************************************************************************)
(* Spec: parsing a document, then one export run                           *)
(***************************************************************************)
Init ==
    /\ doc = <<RootElem>>
    /\ pc = "parse"
    /\ ws = <<>> /\ cp = <<>>
    /\ obj = <<>> /\ item_v6 = "" /\ item_v4 = ""
    /\ href_raw = <<>> /\ xml_dir = [root |-> "/", parts |-> <<"a">>]
    /\ fs = {} /\ resolve_raises = FALSE /\ img = Idle
    /\ short_v6 = "" /\ short_v4 = ""
    /\ source = "wellformed" /\ results = <<>> /\ outcome = "" /\ written = FALSE
    /\ elements = <<>> /\ attributes = <<>>
    /\ temp_images = <<>> /\ tmp_disk = {}
    /\ last_path_file = <<>> /\ status_var = "(none)" /\ click = <<>>

\* an element may be appended below p when p is the last element or one of its
\* ancestors (document order), and p can hold elements
can_append(p) ==
    /\ pc = "parse"
    /\ Len(doc) < MaxNodes + 1
    /\ p \in 1..Len(doc)
    /\ p = Len(doc) \/ IsAncestor(doc, p, Len(doc))
    /\ doc[p].tag # "clashobject"

ParseClashtest(p, name) ==
    /\ can_append(p)
    /\ doc' = Append(doc, [tag |-> "clashtest", parent |-> p, name |-> name,
                           guid |-> <<>>, tags |-> <<>>])
    /\ UNCHANGED <<pc, ws, cp, obj, item_v6, item_v4, href_raw, xml_dir, fs,
                   resolve_raises, img>>
    /\ UNCHANGED runVars
    /\ UNCHANGED shortVars
    /\ UNCHANGED toolVars

ParseClashresult(p, guid) ==
    /\ can_append(p)
    /\ doc' = Append(doc, [tag |-> "clashresult", parent |-> p, name |-> <<>>,
                           guid |-> guid, tags |-> <<>>])
    /\ UNCHANGED <<pc, ws, cp, obj, item_v6, item_v4, href_raw, xml_dir, fs,
                   resolve_raises, img>>
    /\ UNCHANGED runVars
    /\ UNCHANGED shortVars
    /\ UNCHANGED toolVars

ParseClashobject(p, tags) ==
    /\ can_append(p)
    /\ doc' = Append(doc, [tag |-> "clashobject", parent |-> p, name |-> <<>>,
                           guid |-> <<>>, tags |-> tags])
    /\ UNCHANGED <<pc, ws, cp, obj, item_v6, item_v4, href_raw, xml_dir, fs,
                   resolve_raises, img>>
    /\ UNCHANGED runVars
    /\ UNCHANGED shortVars
    /\ UNCHANGED toolVars

ParseOther(p) ==
    /\ can_append(p)
    /\ doc' = Append(doc, [tag |-> "other", parent |-> p, name |-> <<>>,
                           guid |-> <<>>, tags |-> <<>>])
    /\ UNCHANGED <<pc, ws, cp, obj, item_v6, item_v4, href_raw, xml_dir, fs,
                   resolve_raises, img>>
    /\ UNCHANGED runVars
    /\ UNCHANGED shortVars
    /\ UNCHANGED toolVars

\* export_to_excel popping the elements it has read off the tree
export_to_excel_consuming ==
    /\ pc = "parse"
    /\ ws' = report_rows(doc)
    /\ cp' = points_rows(doc)
    /\ pc' = "excel"
    /\ doc' = SubSeq(doc, 1, 1)
    /\ UNCHANGED <<obj, item_v6, item_v4, href_raw, xml_dir, fs,
                   resolve_raises, img>>
    /\ UNCHANGED runVars
    /\ UNCHANGED shortVars
    /\ UNCHANGED toolVars

export_to_excel ==
    /\ pc = "parse"
    /\ ws' = report_rows(doc)
    /\ cp' = points_rows(doc)
    /\ pc' = "excel"
    /\ UNCHANGED <<doc, obj, item_v6, item_v4, href_raw, xml_dir, fs,
                   resolve_raises, img>>
    /\ UNCHANGED runVars
    /\ UNCHANGED shortVars
    /\ UNCHANGED toolVars

export_to_word ==
    /\ pc = "parse"
    /\ ws' = word_rows(doc)
    /\ pc' = "word"
    /\ UNCHANGED <<doc, cp, obj, item_v6, item_v4, href_raw, xml_dir, fs,
                   resolve_raises, img>>
    /\ UNCHANGED runVars
    /\ UNCHANGED shortVars
    /\ UNCHANGED toolVars

Next ==
    \/ \E p \in 1..(MaxNodes + 1), name \in GroupNames : ParseClashtest(p, name)
    \/ \E p \in 1..(MaxNodes + 1), guid \in Guids : ParseClashresult(p, guid)
    \/ \E p \in 1..(MaxNodes + 1), tags \in ObjChoices : ParseClashobject(p, tags)
    \/ \E p \in 1..(MaxNodes + 1) : ParseOther(p)
    \/ export_to_excel
    \/ export_to_word

Spec == Init /\ [][Next]_vars

(***************************************************************************)
(* SpecItem: get_item_details on one clashobject                           *)
(***************************************************************************)
InitItem ==
    /\ doc = <<RootElem>>
    /\ pc = "item"
    /\ ws = <<>> /\ cp = <<>>
    /\ obj = <<>> /\ item_v6 = "" /\ item_v4 = ""
    /\ href_raw = <<>> /\ xml_dir = [root |-> "/", parts |-> <<"a">>]
    /\ fs = {} /\ resolve_raises = FALSE /\ img = Idle
    /\ short_v6 = "" /\ short_v4 = ""
    /\ source = "wellformed" /\ results = <<>> /\ outcome = "" /\ written = FALSE
    /\ elements = <<>> /\ attributes = <<>>
    /\ temp_images = <<>> /\ tmp_disk = {}
    /\ last_path_file = <<>> /\ status_var = "(none)" /\ click = <<>>

ParseSmarttag(name, value) ==
    /\ pc = "item"
    /\ Len(obj) < MaxTags
    /\ obj' = Append(obj, [name |-> name, value |-> value])
    /\ UNCHANGED <<doc, pc, ws, cp, item_v6, item_v4, href_raw, xml_dir, fs,
                   resolve_raises, img>>
    /\ UNCHANGED runVars
    /\ UNCHANGED shortVars
    /\ UNCHANGED toolVars

GetItemDetails ==
    /\ pc = "item"
    /\ item_v6' = get_item_details(obj)
    /\ item_v4' = get_item_details_v4(obj)
    /\ short_v6' = get_item_name_short(summary_tokens(obj))
    /\ short_v4' = short_item_name(summary_tokens_v4(obj))
    /\ pc' = "done"
    /\ UNCHANGED <<doc, ws, cp, obj, href_raw, xml_dir, fs, resolve_raises, img>>
    /\ UNCHANGED runVars
    /\ UNCHANGED toolVars

NextItem ==
    \/ \E name \in NameTexts, value \in ValueTexts : ParseSmarttag(name, value)
    \/ GetItemDetails

SpecItem == InitItem /\ [][NextItem]_vars

(***************************************************************************)
(* SpecImage: find_image_file on one reference                             *)
(***************************************************************************)
InitImage ==
    /\ doc = <<RootElem>>
    /\ pc = "image"
    /\ ws = <<>> /\ cp = <<>>
    /\ obj = <<>> /\ item_v6 = "" /\ item_v4 = ""
    /\ href_raw \in Hrefs
    /\ xml_dir \in XmlDirs
    /\ resolve_raises \in BOOLEAN
    /\ \E S \in SUBSET candidate_places(href_raw, xml_dir) :
           fs = prefix_closure(S \cup {abs_parts(xml_dir)})
    /\ img = Idle
    /\ short_v6 = "" /\ short_v4 = ""
    /\ source = "wellformed" /\ results = <<>> /\ outcome = "" /\ written = FALSE
    /\ elements = <<>> /\ attributes = <<>>
    /\ temp_images = <<>> /\ tmp_disk = {}
    /\ last_path_file = <<>> /\ status_var = "(none)" /\ click = <<>>

FindImageFile ==
    /\ pc = "image"
    /\ img' = find_image_file(href_raw, xml_dir, fs, resolve_raises)
    /\ pc' = "done"
    /\ UNCHANGED <<doc, ws, cp, obj, item_v6, item_v4, href_raw, xml_dir, fs,
                   resolve_raises>>
    /\ UNCHANGED runVars
    /\ UNCHANGED shortVars
    /\ UNCHANGED toolVars

NextImage == FindImageFile

SpecImage == InitImage /\ [][NextImage]_vars

(***************************************************************************)
(* SpecImageV2: find_image_file of export_xml_to_excel_v2.py               *)
(***************************************************************************)
\* the candidates list of find_image_file (v2), in order
candidates_v2(href, dir) ==
    LET p == Path(href)
    IN  (IF is_absolute(p) THEN <<p>> ELSE <<>>)
        \o <<path_join(dir, Path(href))>>
        \o (IF \E k \in 1..Len(href) : href[k] = "/"
            THEN <<path_child(dir, path_name(Path(href)))>>
            ELSE <<path_join(dir, Path(href)),
                   path_join(path_child(dir, "ELV_files"), Path(href))>>)

\* find_image_file(href_raw, xml_path) of v2: [path, probes]; path <<>> is None
find_image_file_v2(h_raw, dir, files, raises) ==
    IF h_raw = <<>> \/ h_raw[1] = <<>> THEN [path |-> <<>>, probes |-> <<>>]
    ELSE LET href == strip(replace_backslash(h_raw[1]))
         IN  probe_loop(candidates_v2(href, dir), <<>>, files, raises)

FindImageFileV2 ==
    /\ pc = "image"
    /\ img' = find_image_file_v2(href_raw, xml_dir, fs, resolve_raises)
    /\ pc' = "done_v2"
    /\ UNCHANGED <<doc, ws, cp, obj, item_v6, item_v4, href_raw, xml_dir, fs,
                   resolve_raises>>
    /\ UNCHANGED runVars
    /\ UNCHANGED shortVars
    /\ UNCHANGED toolVars

NextImageV2 == FindImageFileV2

SpecImageV2 == InitImage /\ [][NextImageV2]_vars

(***************************************************************************)
(* SpecFields: get_item_details and the short name on a clashobject that   *)
(* holds at most one smarttag of each known name                           *)
(***************************************************************************)
KnownNames ==
    <<"Item Name", "Civil3D General:Network name", "Civil3D General:Part Size Name",
      "Item Type", "Civil3D General:Inner Diameter or Width",
      "Civil3D General:Outer Diameter or Width">>

\* the value texts tried for each known name, in the order of KnownNames;
\* <<>> stands for "no smarttag of that name"
FieldTexts ==
    << {<<>>, <<<<"A">>>>, <<<<"\n", " ", "A", " ", "\n">>>>, <<<<" ">>>>,
        <<<<"Spare", " ", "Item Name:", " ", "7">>>>},
       {<<>>, <<<<"N">>>>, <<<<" ">>>>},
       {<<>>, <<<<"P">>>>, <<<<"P", " ", "Q">>>>, <<<<" ">>>>},
       {<<>>, <<<<"T">>>>, <<<<" ">>>>},
       {<<>>, <<<<"5">>>>, <<<<" ">>>>},
       {<<>>, <<<<"7">>>>, <<<<" ">>>>} >>

\* the smarttags of a choice c (one optional text per known name), names k..6
RECURSIVE field_tags(_, _)
field_tags(c, k) ==
    IF k > Len(KnownNames) THEN <<>>
    ELSE (IF c[k] = <<>> THEN <<>>
          ELSE <<[name |-> <<<<KnownNames[k]>>>>, value |-> c[k]]>>)
         \o field_tags(c, k + 1)

\* a sequence in reverse order
reversed(q) == [k \in 1..Len(q) |-> q[Len(q) + 1 - k]]

InitFields ==
    /\ doc = <<RootElem>>
    /\ pc = "item"
    /\ ws = <<>> /\ cp = <<>>
    /\ \E c \in FieldTexts[1] \X FieldTexts[2] \X FieldTexts[3] \X FieldTexts[4]
                \X FieldTexts[5] \X FieldTexts[6] :
          obj \in {field_tags(c, 1), reversed(field_tags(c, 1))}
    /\ item_v6 = "" /\ item_v4 = ""
    /\ href_raw = <<>> /\ xml_dir = [root |-> "/", parts |-> <<"a">>]
    /\ fs = {} /\ resolve_raises = FALSE /\ img = Idle
    /\ short_v6 = "" /\ short_v4 = ""
    /\ source = "wellformed" /\ results = <<>> /\ outcome = "" /\ written = FALSE
    /\ elements = <<>> /\ attributes = <<>>
    /\ temp_images = <<>> /\ tmp_disk = {}
    /\ last_path_file = <<>> /\ status_var = "(none)" /\ click = <<>>

NextFields == GetItemDetails

SpecFields == InitFields /\ [][NextFields]_vars

(***************************************************************************)
(* SpecRun: one export run on a source file whose clashresult elements lie *)
(* outside every clashtest and hold no clashobject.  A clashresult is the  *)
(* record                                                                  *)
(* of what the run reads from it besides guid and image:                   *)
(*   [name, distance, pos], name and distance <<>> or <<string>>, pos <<>> *)
(*   (no pos3f below it) or <<[x, y, z]>>, each axis <<>> (no attribute)   *)
(*   or <<chars>>, the attribute text as one-character strings.            *)
(* A float is [neg, mag], mag in thousandths: the coordinate texts have at *)
(* most three decimals, for which the .3f rendering is the decimal itself. *)
(***************************************************************************)
MaxResults == 2     \* clashresult elements of the document of a run

Digits == <<"0", "1", "2", "3", "4", "5", "6", "7", "8", "9">>

is_digit(c) == \E k \in 1..10 : Digits[k] = c

digit_of(c) == (CHOOSE k \in 1..10 : Digits[k] = c) - 1

\* the number written by a sequence of digits
RECURSIVE int_of(_)
int_of(ds) ==
    IF ds = <<>> THEN 0
    ELSE int_of(SubSeq(ds, 1, Len(ds) - 1)) * 10 + digit_of(ds[Len(ds)])

\* the thousandths written by the digits after the decimal point
frac_of(ds) ==
    LET d(k) == IF Len(ds) > k - 1 THEN digit_of(ds[k]) ELSE 0
    IN  d(1) * 100 + d(2) * 10 + d(3)

\* float(text): <<value>>, or <<>> when float raises ValueError
parse_float(t) ==
    LET signed == t # <<>> /\ t[1] \in {"-", "+"}
        body == IF signed THEN Tail(t) ELSE t
        dots == {k \in 1..Len(body) : body[k] = "."}
        dot == IF dots = {} THEN Len(body) + 1 ELSE CHOOSE k \in dots : \A j \in dots : k <= j
        whole == SubSeq(body, 1, dot - 1)
        frac == SubSeq(body, dot + 1, Len(body))
        ok == /\ \A k \in 1..Len(whole) : is_digit(whole[k])
              /\ \A k \in 1..Len(frac) : is_digit(frac[k])
              /\ Len(whole) + Len(frac) > 0
    IN  IF ok THEN <<[neg |-> signed /\ t[1] = "-",
                      mag |-> int_of(whole) * 1000 + frac_of(frac)]>>
        ELSE <<>>

\* float(pos.get(axis) or 0.0)
float_of(a) ==
    IF a = <<>> \/ a[1] = <<>> THEN <<[neg |-> FALSE, mag |-> 0]>>
    ELSE parse_float(a[1])

\* f"{v:.3f}"
format_3f(v) ==
    LET m == v.mag % 1000
    IN  (IF v.neg THEN "-" ELSE "") \o ToString(v.mag \div 1000) \o "."
        \o (IF m < 10 THEN "00" ELSE IF m < 100 THEN "0" ELSE "") \o ToString(m)

\* the three floats of a pos3f in the order they are converted; the
\* conversion stops at the first ValueError
floats_of(p) ==
    LET x == float_of(p.x)
        y == float_of(p.y)
        z == float_of(p.z)
    IN  IF x = <<>> THEN <<>>
        ELSE IF y = <<>> THEN x
        ELSE IF z = <<>> THEN x \o y
        ELSE x \o y \o z

\* whether the conversion of the pos3f of r raises
float_raises(r) == r.pos # <<>> /\ Len(floats_of(r.pos[1])) < 3

\* coords_text with the axes converted before the failure kept
coords_text_partial(r) ==
    IF r.pos = <<>> THEN ""
    ELSE LET f == floats_of(r.pos[1])
         IN  join_lines([k \in 1..Len(f) |->
                            format_3f(f[k]) \o "m" \o (IF k < Len(f) THEN "," ELSE "")])

\* coords_text of the first loop of export_to_excel: try/except
coords_text_excel(r) ==
    IF r.pos = <<>> \/ float_raises(r) THEN ""
    ELSE LET f == floats_of(r.pos[1])
         IN  format_3f(f[1]) \o "m,\n" \o format_3f(f[2]) \o "m,\n"
             \o format_3f(f[3]) \o "m"

\* coords_text of export_to_word, when the conversion does not raise
coords_text_word(r) ==
    IF r.pos = <<>> THEN ""
    ELSE LET f == floats_of(r.pos[1])
         IN  format_3f(f[1]) \o "m, " \o format_3f(f[2]) \o "m, "
             \o format_3f(f[3]) \o "m"

\* clash.get("name", f"Clash{i}")
clash_name_of(r, i) == attr_get(r.name, "Clash" \o ToString(i))

\* clash.get("distance", "N/A")
distance_of(r) == attr_get(r.distance, "N/A")

\* between_line = f"Between: {short name of item 1} and {short name of item 2}\n"
between_line_of(item1, item2) ==
    "Between: " \o get_item_name_short(item1) \o " and "
    \o get_item_name_short(item2) \o "\n"

\* clash_details of export_to_excel (v6)
clash_details_excel(clash_group, between_line, clash_name, distance, coords_text) ==
    "Clash Group: " \o clash_group \o "\n" \o between_line \o "\n" \o clash_name
    \o "\nDistance: " \o distance \o "m\nClash Point:\n" \o coords_text

\* clash_details of export_to_word (v4)
clash_details_word(clash_group, between_line, clash_name, distance, coords_text) ==
    "Clash Group: " \o clash_group \o "\n" \o between_line \o clash_name
    \o "\nDistance: " \o distance \o "m\nClash Point: " \o coords_text

\* the index of the first result whose conversion raises, 0 when none does
first_raise(rs) ==
    LET K == {k \in 1..Len(rs) : float_raises(rs[k])}
    IN  IF K = {} THEN 0 ELSE CHOOSE k \in K : \A j \in K : k <= j

\* the Clash Report rows of the first loop of export_to_excel
report_records(rs) ==
    [i \in 1..Len(rs) |->
        [rfi |-> i,
         clash_name |-> clash_name_of(rs[i], i),
         distance |-> distance_of(rs[i]),
         coords_text |-> coords_text_excel(rs[i]),
         clash_details |-> clash_details_excel("Unknown Group", between_line_of(<<>>, <<>>),
                                               clash_name_of(rs[i], i), distance_of(rs[i]),
                                               coords_text_excel(rs[i])),
         item1_text |-> "",
         item2_text |-> ""]]

\* the Clash_Points rows of the second loop, which ends at a ValueError
points_records(rs) ==
    LET k == first_raise(rs)
        n == IF k = 0 THEN Len(rs) ELSE k - 1
    IN  [i \in 1..n |->
            [id |-> i,
             clash_name |-> clash_name_of(rs[i], i),
             xyz |-> IF rs[i].pos = <<>> THEN <<>> ELSE floats_of(rs[i].pos[1])]]

\* the table rows of export_to_word: the row of the result whose conversion
\* raises was added and holds its number only
word_records(rs) ==
    LET k == first_raise(rs)
        n == IF k = 0 THEN Len(rs) ELSE k
    IN  [i \in 1..n |->
            IF i = k THEN [rfi |-> ToString(i), clash_name |-> "", distance |-> "",
                           coords_text |-> "", clash_details |-> "",
                           item1_text |-> "", item2_text |-> ""]
            ELSE [rfi |-> ToString(i),
                  clash_name |-> clash_name_of(rs[i], i),
                  distance |-> distance_of(rs[i]),
                  coords_text |-> coords_text_word(rs[i]),
                  clash_details |-> clash_details_word("Unknown Group",
                                        between_line_of(<<>>, <<>>),
                                        clash_name_of(rs[i], i), distance_of(rs[i]),
                                        coords_text_word(rs[i])),
                  item1_text |-> "",
                  item2_text |-> ""]]

NoRun(how) == [ws |-> <<>>, cp |-> <<>>, outcome |-> how, written |-> FALSE]

\* export_to_excel with ET.parse taking a malformed file for an empty document
excel_run_parse_swallowed(src, rs) ==
    IF src = "missing" THEN NoRun("returned")
    ELSE [ws |-> report_records(rs), cp |-> points_records(rs),
          outcome |-> IF first_raise(rs) = 0 THEN "returned" ELSE "ValueError",
          written |-> first_raise(rs) = 0]

\* export_to_excel (v6) from the existence test to wb.save
excel_run(src, rs) ==
    IF src = "missing" THEN NoRun("returned")
    ELSE IF src = "malformed" THEN NoRun("ParseError")
    ELSE [ws |-> report_records(rs), cp |-> points_records(rs),
          outcome |-> IF first_raise(rs) = 0 THEN "returned" ELSE "ValueError",
          written |-> first_raise(rs) = 0]

\* export_to_word (v4) from the existence test to doc.save
word_run(src, rs) ==
    IF src = "missing" THEN NoRun("returned")
    ELSE IF src = "malformed" THEN NoRun("ParseError")
    ELSE [ws |-> word_records(rs), cp |-> <<>>,
          outcome |-> IF first_raise(rs) = 0 THEN "returned" ELSE "ValueError",
          written |-> first_raise(rs) = 0]

Sources == {"missing", "malformed", "wellformed"}

\* the attribute texts tried for the axes of a pos3f
XTexts == {<<>>, <<<<"1">>>>, <<<<"a", "b", "c">>>>}
YTexts == {<<<<"2", ".", "5">>>>, <<<<"a", "b", "c">>>>}
ZTexts == {<<<<>>>>, <<<<"-", "3", ".", "2", "5">>>>, <<<<"a", "b", "c">>>>}

PosChoices == {<<>>} \cup {<<[x |-> x, y |-> y, z |-> z]>> :
                              x \in XTexts, y \in YTexts, z \in ZTexts}

\* name and distance attributes of a clashresult
NameDistanceChoices == {<< <<>>, <<>> >>, << <<"N">>, <<"0.5">> >>}

ResultChoices == {[name |-> nd[1], distance |-> nd[2], pos |-> p] :
                     nd \in NameDistanceChoices, p \in PosChoices}

InitRun ==
    /\ doc = <<RootElem>>
    /\ pc = "read"
    /\ ws = <<>> /\ cp = <<>>
    /\ obj = <<>> /\ item_v6 = "" /\ item_v4 = ""
    /\ href_raw = <<>> /\ xml_dir = [root |-> "/", parts |-> <<"a">>]
    /\ fs = {} /\ resolve_raises = FALSE /\ img = Idle
    /\ short_v6 = "" /\ short_v4 = ""
    /\ source \in Sources
    /\ results = <<>> /\ outcome = "" /\ written = FALSE
    /\ elements = <<>> /\ attributes = <<>>
    /\ temp_images = <<>> /\ tmp_disk = {}
    /\ last_path_file = <<>> /\ status_var = "(none)" /\ click = <<>>

\* the document of a well-formed file holds one more clashresult
ReadClashresult(r) ==
    /\ pc = "read"
    /\ source = "wellformed"
    /\ Len(results) < MaxResults
    /\ results' = Append(results, r)
    /\ UNCHANGED <<doc, pc, ws, cp, obj, item_v6, item_v4, href_raw, xml_dir, fs,
                   resolve_raises, img, source, outcome, written>>
    /\ UNCHANGED shortVars
    /\ UNCHANGED toolVars

RunExportToExcel ==
    /\ pc = "read"
    /\ \E run \in {excel_run(source, results)} :
          /\ ws' = run.ws
          /\ cp' = run.cp
          /\ outcome' = run.outcome
          /\ written' = run.written
    /\ pc' = "excel"
    /\ UNCHANGED <<doc, obj, item_v6, item_v4, href_raw, xml_dir, fs,
                   resolve_raises, img, source, results>>
    /\ UNCHANGED shortVars
    /\ UNCHANGED toolVars

RunExportToWord ==
    /\ pc = "read"
    /\ \E run \in {word_run(source, results)} :
          /\ ws' = run.ws
          /\ cp' = run.cp
          /\ outcome' = run.outcome
          /\ written' = run.written
    /\ pc' = "word"
    /\ UNCHANGED <<doc, obj, item_v6, item_v4, href_raw, xml_dir, fs,
                   resolve_raises, img, source, results>>
    /\ UNCHANGED shortVars
    /\ UNCHANGED toolVars

NextRun ==
    \/ \E r \in ResultChoices : ReadClashresult(r)
    \/ RunExportToExcel
    \/ RunExportToWord

SpecRun == InitRun /\ [][NextRun]_vars

(***************************************************************************)
(* SpecDiscover: discover_fields on a document.  A node is                 *)
(*   [tag, parent, text, attrs]: tag a string of one-character strings,    *)
(*   text <<>> (None) or <<tokens>>, attrs the attribute names in document *)
(*   order.  A path is a sequence of one-character strings.                *)
(***************************************************************************)
MaxElems == 3       \* elements of the scanned document, the root included

\* the code point of a character of a path
CharRank(c) ==
    CASE c = "/" -> 47
      [] c = "@" -> 64
      [] c = "a" -> 97
      [] c = "b" -> 98
      [] c = "x" -> 120
      [] c = "y" -> 121

\* p < q for two strings (Python's str comparison)
RECURSIVE lex_less(_, _)
lex_less(p, q) ==
    IF q = <<>> THEN FALSE
    ELSE IF p = <<>> THEN TRUE
    ELSE IF Head(p) = Head(q) THEN lex_less(Tail(p), Tail(q))
    ELSE CharRank(Head(p)) < CharRank(Head(q))

\* sorted(S) for a set of strings
RECURSIVE sorted(_)
sorted(S) ==
    IF S = {} THEN <<>>
    ELSE LET least == CHOOSE p \in S : \A q \in S \ {p} : lex_less(p, q)
         IN  <<least>> \o sorted(S \ {least})

\* tag_path = f"{path}/{elem.tag}" if path else elem.tag
tag_path_of(d, e, path) ==
    IF path # <<>> THEN path \o <<"/">> \o d[e].tag ELSE d[e].tag

\* the element test with the children left out of it
has_text(d, e) == d[e].text # <<>> /\ strip(d[e].text[1]) # <<>>

\* (elem.text and elem.text.strip()) or len(elem)
has_content(d, e) ==
    \/ d[e].text # <<>> /\ strip(d[e].text[1]) # <<>>
    \/ \E j \in 1..Len(d) : d[j].parent = e

\* walk(elem, path): what the call adds to the two sets
RECURSIVE walk(_, _, _)
walk(d, e, path) ==
    LET tag_path == tag_path_of(d, e, path)
        below == {walk(d, j, tag_path) : j \in {k \in 1..Len(d) : d[k].parent = e}}
    IN  [elements |-> (IF has_content(d, e) THEN {tag_path} ELSE {})
                      \cup UNION {w.elements : w \in below},
         attributes |-> {tag_path \o <<"/", "@">> \o d[e].attrs[k] :
                            k \in 1..Len(d[e].attrs)}
                        \cup UNION {w.attributes : w \in below}]

\* discover_fields(xml_path): sorted(elements), sorted(attributes)
discover_fields(d) ==
    [elements |-> sorted(walk(d, Root, <<>>).elements),
     attributes |-> sorted(walk(d, Root, <<>>).attributes)]

\* tag, text and attributes of the elements tried
NodeChoices ==
    {[tag |-> <<"a">>, text |-> <<>>, attrs |-> <<>>],
     [tag |-> <<"a">>, text |-> <<<<" ">>>>, attrs |-> <<>>],
     [tag |-> <<"a">>, text |-> <<<<"t">>>>, attrs |-> <<<<"x">>>>],
     [tag |-> <<"b">>, text |-> <<>>, attrs |-> <<>>],
     [tag |-> <<"b">>, text |-> <<<<"\n", " ">>>>, attrs |-> <<<<"y">>, <<"x">>>>],
     [tag |-> <<"b">>, text |-> <<<<"t">>>>, attrs |-> <<<<"x">>>>]}

node_of(c, p) == [tag |-> c.tag, parent |-> p, text |-> c.text, attrs |-> c.attrs]

InitDiscover ==
    /\ \E c \in NodeChoices : doc = <<node_of(c, 0)>>
    /\ pc = "scan"
    /\ ws = <<>> /\ cp = <<>>
    /\ obj = <<>> /\ item_v6 = "" /\ item_v4 = ""
    /\ href_raw = <<>> /\ xml_dir = [root |-> "/", parts |-> <<"a">>]
    /\ fs = {} /\ resolve_raises = FALSE /\ img = Idle
    /\ short_v6 = "" /\ short_v4 = ""
    /\ source = "wellformed" /\ results = <<>> /\ outcome = "" /\ written = FALSE
    /\ elements = <<>> /\ attributes = <<>>
    /\ temp_images = <<>> /\ tmp_disk = {}
    /\ last_path_file = <<>> /\ status_var = "(none)" /\ click = <<>>

\* ET.parse: the document holds one more element below p (document order)
ParseElement(p, c) ==
    /\ pc = "scan"
    /\ Len(doc) < MaxElems
    /\ p \in 1..Len(doc)
    /\ p = Len(doc) \/ IsAncestor(doc, p, Len(doc))
    /\ doc' = Append(doc, node_of(c, p))
    /\ UNCHANGED <<pc, ws, cp, obj, item_v6, item_v4, href_raw, xml_dir, fs,
                   resolve_raises, img>>
    /\ UNCHANGED runVars
    /\ UNCHANGED shortVars
    /\ UNCHANGED toolVars

DiscoverFields ==
    /\ pc = "scan"
    /\ \E found \in {discover_fields(doc)} :
          /\ elements' = found.elements
          /\ attributes' = found.attributes
    /\ pc' = "discovered"
    /\ UNCHANGED <<doc, ws, cp, obj, item_v6, item_v4, href_raw, xml_dir, fs,
                   resolve_raises, img>>
    /\ UNCHANGED runVars
    /\ UNCHANGED shortVars
    /\ UNCHANGED <<temp_images, tmp_disk, last_path_file, status_var, click>>

NextDiscover ==
    \/ \E p \in 1..MaxElems, c \in NodeChoices : ParseElement(p, c)
    \/ DiscoverFields

SpecDiscover == InitDiscover /\ [][NextDiscover]_vars

(***************************************************************************)
(* SpecTemp: the temporary image files of one export run.  A clashresult   *)
(* is [image, pos_bad]: image tells how its picture fares,                 *)
(*   "none"        find_image_file returns None                            *)
(*   "unopenable"  PILImage.open raises; resize_image_for_cell returns None*)
(*   "save_fails"  the temporary file is created, img.save raises          *)
(*   "embed_fails" the temporary file is written, embedding it raises      *)
(*   "embedded"    the temporary file is written and embedded              *)
(* and pos_bad whether a coordinate of its pos3f is not a number.  The     *)
(* temporary file of result i is named i.                                  *)
(***************************************************************************)
ImageKinds == {"none", "unopenable", "save_fails", "embed_fails", "embedded"}

TempResultChoices == [image : ImageKinds, pos_bad : BOOLEAN]

NoTemp == [temp_images |-> <<>>, tmp_disk |-> {}, outcome |-> ""]

\* the first loop of export_to_excel (v6) from result i on: resize outside
\* the try block, XLImage / add_image / temp_images.append inside it
RECURSIVE excel_image_loop(_, _, _)
excel_image_loop(rs, i, acc) ==
    IF i > Len(rs) THEN acc
    ELSE CASE rs[i].image \in {"none", "unopenable"} ->
                  excel_image_loop(rs, i + 1, acc)
           [] rs[i].image = "save_fails" ->
                  [acc EXCEPT !.tmp_disk = @ \cup {i}, !.outcome = "OSError"]
           [] rs[i].image = "embed_fails" ->
                  excel_image_loop(rs, i + 1, [acc EXCEPT !.tmp_disk = @ \cup {i}])
           [] rs[i].image = "embedded" ->
                  excel_image_loop(rs, i + 1,
                                   [acc EXCEPT !.tmp_disk = @ \cup {i},
                                               !.temp_images = Append(@, i)])

\* the loop of export_to_word (v4) from result i on: the coordinates are
\* converted first, then the picture is resized and added, nothing is caught
RECURSIVE word_image_loop(_, _, _)
word_image_loop(rs, i, acc) ==
    IF i > Len(rs) THEN acc
    ELSE IF rs[i].pos_bad THEN [acc EXCEPT !.outcome = "ValueError"]
    ELSE CASE rs[i].image \in {"none", "unopenable"} ->
                  word_image_loop(rs, i + 1, acc)
           [] rs[i].image = "save_fails" ->
                  [acc EXCEPT !.tmp_disk = @ \cup {i}, !.outcome = "OSError"]
           [] rs[i].image = "embed_fails" ->
                  [acc EXCEPT !.tmp_disk = @ \cup {i}, !.outcome = "Exception"]
           [] rs[i].image = "embedded" ->
                  word_image_loop(rs, i + 1,
                                  [acc EXCEPT !.tmp_disk = @ \cup {i},
                                              !.temp_images = Append(@, i)])

\* for t in temp_images: os.remove(t), reached after the save only
cleanup(acc) ==
    [acc EXCEPT !.tmp_disk = @ \ {acc.temp_images[k] : k \in 1..Len(acc.temp_images)},
                !.outcome = "returned"]

\* export_to_excel (v6): first loop, Clash_Points loop, wb.save, cleanup
excel_temp_run(rs) ==
    LET first == excel_image_loop(rs, 1, NoTemp)
    IN  IF first.outcome # "" THEN first
        ELSE IF \E k \in 1..Len(rs) : rs[k].pos_bad
             THEN [first EXCEPT !.outcome = "ValueError"]
        ELSE cleanup(first)

\* export_to_word (v4): the loop, doc.save, cleanup
word_temp_run(rs) ==
    LET loop == word_image_loop(rs, 1, NoTemp)
    IN  IF loop.outcome # "" THEN loop ELSE cleanup(loop)

InitTemp ==
    /\ doc = <<RootElem>>
    /\ pc = "read"
    /\ ws = <<>> /\ cp = <<>>
    /\ obj = <<>> /\ item_v6 = "" /\ item_v4 = ""
    /\ href_raw = <<>> /\ xml_dir = [root |-> "/", parts |-> <<"a">>]
    /\ fs = {} /\ resolve_raises = FALSE /\ img = Idle
    /\ short_v6 = "" /\ short_v4 = ""
    /\ source = "wellformed" /\ results = <<>> /\ outcome = "" /\ written = FALSE
    /\ elements = <<>> /\ attributes = <<>>
    /\ temp_images = <<>> /\ tmp_disk = {}
    /\ last_path_file = <<>> /\ status_var = "(none)" /\ click = <<>>

\* the document holds one more clashresult
ReadImageResult(r) ==
    /\ pc = "read"
    /\ Len(results) < MaxResults
    /\ results' = Append(results, r)
    /\ UNCHANGED <<doc, pc, ws, cp, obj, item_v6, item_v4, href_raw, xml_dir, fs,
                   resolve_raises, img, source, outcome, written>>
    /\ UNCHANGED shortVars
    /\ UNCHANGED toolVars

TempRunExcel ==
    /\ pc = "read"
    /\ \E run \in {excel_temp_run(results)} :
          /\ temp_images' = run.temp_images
          /\ tmp_disk' = run.tmp_disk
          /\ outcome' = run.outcome
          /\ written' = (run.outcome = "returned")
    /\ pc' = "excel"
    /\ UNCHANGED <<doc, ws, cp, obj, item_v6, item_v4, href_raw, xml_dir, fs,
                   resolve_raises, img, source, results>>
    /\ UNCHANGED shortVars
    /\ UNCHANGED <<elements, attributes, last_path_file, status_var, click>>

TempRunWord ==
    /\ pc = "read"
    /\ \E run \in {word_temp_run(results)} :
          /\ temp_images' = run.temp_images
          /\ tmp_disk' = run.tmp_disk
          /\ outcome' = run.outcome
          /\ written' = (run.outcome = "returned")
    /\ pc' = "word"
    /\ UNCHANGED <<doc, ws, cp, obj, item_v6, item_v4, href_raw, xml_dir, fs,
                   resolve_raises, img, source, results>>
    /\ UNCHANGED shortVars
    /\ UNCHANGED <<elements, attributes, last_path_file, status_var, click>>

NextTemp ==
    \/ \E r \in TempResultChoices : ReadImageResult(r)
    \/ TempRunExcel
    \/ TempRunWord

SpecTemp == InitTemp /\ [][NextTemp]_vars

(***************************************************************************)
(* SpecGui: Export clicks in clash_exporter_gui.py.  Folders are strings;  *)
(* the XML entry is <<>> (empty after strip) or <<folder of the file>>,    *)
(* the Save As answer <<>> (cancelled) or <<folder of the chosen file>>.   *)
(***************************************************************************)
Folders == {"p", "q", "x"}

\* load_last_path(): None (<<>>) without the file or with an empty one
load_last_path(file) == IF file = <<>> \/ file[1] = "" THEN <<>> ELSE file

\* save_last_path(folder): write_text, whose failure is swallowed
save_last_path(file, folder, write_ok) == IF write_ok THEN <<folder>> ELSE file

\* the folder of output_path: the Save As answer when asked, else
\* default_dir = last if last and last.exists() else xml_p.parent
output_parent(file, xml_folder, last_exists, ask_save, chosen) ==
    IF ask_save THEN chosen[1]
    ELSE IF load_last_path(file) # <<>> /\ last_exists THEN load_last_path(file)[1]
    ELSE xml_folder

Call(file, status, stage, out, write_ok) ==
    [last_path_file |-> file, status_var |-> status,
     click |-> <<[stage |-> stage, out |-> out, write_ok |-> write_ok]>>]

\* do_export with the last-save folder recorded before the exporter runs
do_export_save_first(file, status, xml, xml_exists, import_ok, last_exists, ask_save, chosen, raises, write_ok) ==
    IF xml = <<>> THEN Call(file, status, "no_xml", <<>>, write_ok)
    ELSE IF ~xml_exists THEN Call(file, status, "xml_missing", <<>>, write_ok)
    ELSE IF ~import_ok THEN Call(file, status, "import_error", <<>>, write_ok)
    ELSE IF ask_save /\ chosen = <<>> THEN Call(file, status, "cancelled", <<>>, write_ok)
    ELSE LET out == output_parent(file, xml[1], last_exists, ask_save, chosen)
         IN  Call(save_last_path(file, out, write_ok), out,
                  IF raises THEN "raised" ELSE "saved", <<out>>, write_ok)

\* do_export(kind): what the call leaves in last_path.txt and in the status
\* label, and the course it took
do_export(file, status, xml, xml_exists, import_ok, last_exists, ask_save, chosen, raises, write_ok) ==
    IF xml = <<>> THEN Call(file, status, "no_xml", <<>>, write_ok)
    ELSE IF ~xml_exists THEN Call(file, status, "xml_missing", <<>>, write_ok)
    ELSE IF ~import_ok THEN Call(file, status, "import_error", <<>>, write_ok)
    ELSE IF ask_save /\ chosen = <<>> THEN Call(file, status, "cancelled", <<>>, write_ok)
    ELSE LET out == output_parent(file, xml[1], last_exists, ask_save, chosen)
         IN  IF raises THEN Call(file, status, "raised", <<out>>, write_ok)
             ELSE Call(save_last_path(file, out, write_ok), out, "saved", <<out>>,
                       write_ok)

InitGui ==
    /\ doc = <<RootElem>>
    /\ pc = "gui"
    /\ ws = <<>> /\ cp = <<>>
    /\ obj = <<>> /\ item_v6 = "" /\ item_v4 = ""
    /\ href_raw = <<>> /\ xml_dir = [root |-> "/", parts |-> <<"a">>]
    /\ fs = {} /\ resolve_raises = FALSE /\ img = Idle
    /\ short_v6 = "" /\ short_v4 = ""
    /\ source = "wellformed" /\ results = <<>> /\ outcome = "" /\ written = FALSE
    /\ elements = <<>> /\ attributes = <<>>
    /\ temp_images = <<>> /\ tmp_disk = {}
    /\ last_path_file \in {<<>>} \cup {<<f>> : f \in Folders}
    /\ status_var = (IF load_last_path(last_path_file) = <<>> THEN "(none)"
                     ELSE load_last_path(last_path_file)[1])
    /\ click = <<>>

\* one click on Export to Excel or Export to Word
DoExport(xml, xml_exists, import_ok, last_exists, ask_save, chosen, raises, write_ok) ==
    /\ pc = "gui"
    /\ \E call \in {do_export(last_path_file, status_var, xml, xml_exists, import_ok,
                              last_exists, ask_save, chosen, raises, write_ok)} :
          /\ last_path_file' = call.last_path_file
          /\ status_var' = call.status_var
          /\ click' = call.click
    /\ UNCHANGED <<doc, pc, ws, cp, obj, item_v6, item_v4, href_raw, xml_dir, fs,
                   resolve_raises, img>>
    /\ UNCHANGED runVars
    /\ UNCHANGED shortVars
    /\ UNCHANGED <<elements, attributes, temp_images, tmp_disk>>

NextGui ==
    \E xml \in {<<>>} \cup {<<f>> : f \in Folders},
       chosen \in {<<>>} \cup {<<f>> : f \in Folders},
       xml_exists \in BOOLEAN, import_ok \in BOOLEAN, last_exists \in BOOLEAN,
       ask_save \in BOOLEAN, raises \in BOOLEAN, write_ok \in BOOLEAN :
        DoExport(xml, xml_exists, import_ok, last_exists, ask_save, chosen, raises,
                 write_ok)

SpecGui == InitGui /\ [][NextGui]_vars

(***************************************************************************)
(* SpecV1: export_to_excel of export_xml_to_excel_v1.py, which walks the   *)
(* clashgroup elements of the document                                     *)
(***************************************************************************)
\* the clashresult elements visited by the nested loops, in visiting order:
\* for each clashgroup of the document, the results below it
RECURSIVE visited_results(_, _)
visited_results(d, groups) ==
    IF groups = <<>> THEN <<>>
    ELSE [k \in 1..Len(findall(d, Head(groups), "clashresult")) |->
             [group |-> Head(groups),
              elem |-> findall(d, Head(groups), "clashresult")[k]]]
         \o visited_results(d, Tail(groups))

\* the rows written by export_to_excel (v1); clash_id counts the rows
rows_v1(d) ==
    LET visits == visited_results(d, findall(d, Root, "clashgroup"))
    IN  [i \in 1..Len(visits) |->
            [id |-> i,
             elem |-> visits[i].elem,
             group_name |-> attr_get(d[visits[i].group].name, "Unknown Group")]]

ParseClashgroup(p, name) ==
    /\ can_append(p)
    /\ doc' = Append(doc, [tag |-> "clashgroup", parent |-> p, name |-> name,
                           guid |-> <<>>, tags |-> <<>>])
    /\ UNCHANGED <<pc, ws, cp, obj, item_v6, item_v4, href_raw, xml_dir, fs,
                   resolve_raises, img>>
    /\ UNCHANGED runVars
    /\ UNCHANGED shortVars
    /\ UNCHANGED toolVars

export_to_excel_v1 ==
    /\ pc = "parse"
    /\ ws' = rows_v1(doc)
    /\ pc' = "excel_v1"
    /\ UNCHANGED <<doc, cp, obj, item_v6, item_v4, href_raw, xml_dir, fs,
                   resolve_raises, img>>
    /\ UNCHANGED runVars
    /\ UNCHANGED shortVars
    /\ UNCHANGED toolVars

NextV1 ==
    \/ \E p \in 1..(MaxNodes + 1), name \in GroupNames : ParseClashgroup(p, name)
    \/ \E p \in 1..(MaxNodes + 1) : ParseClashresult(p, <<>>)
    \/ \E p \in 1..(MaxNodes + 1) : ParseOther(p)
    \/ export_to_excel_v1

SpecV1 == Init /\ [][NextV1]_vars

(***************************************************************************)
(* SpecFrame: a document handed to one of the three readers of the tree:   *)
(* export_to_excel, export_to_word or discover_fields                      *)
(***************************************************************************)
InitFrame == Init \/ InitDiscover

NextFrame == Next \/ NextDiscover

SpecFrame == InitFrame /\ [][NextFrame]_vars

(***************************************************************************)
(* Properties of the export run (Spec)                                     *)
(***************************************************************************)
Exported == pc \in {"excel", "word"}

\* the clashresult elements of the document
ResultElems == {j \in 1..Len(doc) : doc[j].tag = "clashresult"}

\* a guid that passes the "if clash_guid" test
Truthy(g) == g # <<>> /\ g[1] # ""

\* the clashtest elements below the root that hold, at any depth, a result
\* carrying guid g
TestsHolding(g) ==
    {t \in 2..Len(doc) :
        /\ doc[t].tag = "clashtest"
        /\ \E j \in ResultElems : IsAncestor(doc, t, j) /\ doc[j].guid = g}

\* the least element of a non-empty set of indices
Least(S) == CHOOSE x \in S : \A y \in S : x <= y

\* the greatest element of a non-empty set of indices
Greatest(S) == CHOOSE x \in S : \A y \in S : x >= y

\* the clashtest elements enclosing element j
EnclosingTests(j) ==
    {t \in 2..Len(doc) : doc[t].tag = "clashtest" /\ IsAncestor(doc, t, j)}

\* C1: after export_to_excel the Clash Report sheet holds exactly one row per
\* clashresult element of the tree, column 1 counts 1..N without gap or
\* repeat, and the rows follow the document order of the elements.
C1_OneRowPerClashresult ==
    pc = "excel" =>
        /\ Len(ws) = Cardinality(ResultElems)
        /\ \A i \in 1..Len(ws) : ws[i].rfi = i /\ ws[i].elem \in ResultElems
        /\ \A i, k \in 1..Len(ws) : i < k => ws[i].elem < ws[k].elem

\* C1 witness: a run that wrote two rows, one of them for a result that is
\* not a child of the root.
C1_Witness ==
    /\ pc = "excel"
    /\ Len(ws) >= 2
    /\ \E i \in 1..Len(ws) : doc[ws[i].elem].parent # Root

\* C2: when two group containers hold a result with the target's guid, the
\* row gets the name of the one that is earlier in document order, whatever
\* that name is.
C2_FirstMatchWins ==
    Exported =>
        \A i \in 1..Len(ws) :
            LET g == doc[ws[i].elem].guid
                T == TestsHolding(g)
            IN  (Truthy(g) /\ Cardinality(T) >= 2 /\ doc[Least(T)].name # <<>>)
                    => ws[i].clash_group = doc[Least(T)].name[1]

\* C3: when the first group container holding the target's guid has no name
\* attribute, the row's group is "Unknown Group", whatever later containers
\* hold.
C3_UnnamedFirstGroup ==
    Exported =>
        \A i \in 1..Len(ws) :
            LET g == doc[ws[i].elem].guid
                T == TestsHolding(g)
            IN  (Truthy(g) /\ T # {} /\ doc[Least(T)].name = <<>>)
                    => ws[i].clash_group = "Unknown Group"

\* C4: with nested group containers, a result whose guid is its own alone
\* gets the name of the innermost clashtest that encloses it.
C4_NearestEnclosingGroup ==
    Exported =>
        \A i \in 1..Len(ws) :
            LET j == ws[i].elem
                g == doc[j].guid
                E == EnclosingTests(j)
            IN  (/\ Truthy(g)
                 /\ \A k \in ResultElems : doc[k].guid = g => k = j
                 /\ Cardinality(E) >= 2)
                    => ws[i].clash_group = attr_get(doc[Greatest(E)].name, "Unknown Group")

\* C5: a result with no guid attribute, or an empty one, gets the group
\* "Unknown Group" in its Clash Report row (and Word table row), wherever it
\* sits.
C5_NoGuidUnknownGroup ==
    Exported =>
        \A i \in 1..Len(ws) :
            ~Truthy(doc[ws[i].elem].guid) => ws[i].clash_group = "Unknown Group"

\* C5 witness: a result without guid that is a child of a clashtest named A,
\* exported to the Clash Report sheet.
C5_Witness ==
    /\ pc = "excel"
    /\ \E i \in 1..Len(ws) :
          /\ doc[ws[i].elem].guid = <<>>
          /\ doc[doc[ws[i].elem].parent].tag = "clashtest"
          /\ doc[doc[ws[i].elem].parent].name = <<"A">>
          /\ ws[i].clash_group = "Unknown Group"

\* C10 as stated: a result with no clashobject among its children gets the
\* empty string for item 1 and for item 2.
C10_NoChildObjectsEmptyItems ==
    Exported =>
        \A i \in 1..Len(ws) :
            (~\E j \in 1..Len(doc) :
                  doc[j].tag = "clashobject" /\ doc[j].parent = ws[i].elem)
                => ws[i].item1_text = "" /\ ws[i].item2_text = ""

\* C10 amended: a result with no clashobject anywhere below it gets the
\* empty string for item 1 and for item 2.
C10_NoObjectsBelowEmptyItems ==
    Exported =>
        \A i \in 1..Len(ws) :
            (~\E j \in 1..Len(doc) :
                  doc[j].tag = "clashobject" /\ IsAncestor(doc, ws[i].elem, j))
                => ws[i].item1_text = "" /\ ws[i].item2_text = ""

\* C10 witness: a document with a populated clashobject, and a row for a
\* result that has no clashobject below it.
C10_Witness ==
    /\ Exported
    /\ \E j \in 1..Len(doc) : doc[j].tag = "clashobject" /\ doc[j].tags # <<>>
    /\ \E i \in 1..Len(ws) :
          /\ ~\E j \in 1..Len(doc) :
                  doc[j].tag = "clashobject" /\ IsAncestor(doc, ws[i].elem, j)
          /\ ws[i].item1_text = "" /\ ws[i].item2_text = ""

\* the clashobject elements that are children of element e
ObjectChildren(e) ==
    {j \in 1..Len(doc) : doc[j].tag = "clashobject" /\ doc[j].parent = e}

\* the clashobject elements below element e, at any depth
ObjectsBelow(e) ==
    {j \in 1..Len(doc) : doc[j].tag = "clashobject" /\ IsAncestor(doc, e, j)}

\* the summary of the n-th element (n = 1, 2) of a set of clashobjects in
\* document order, "" when the set has fewer than n elements
NthSummary(S, n) ==
    IF Cardinality(S) < n THEN ""
    ELSE IF n = 1 THEN get_item_details(doc[Least(S)].tags)
    ELSE get_item_details(doc[Least(S \ {Least(S)})].tags)

\* C23 as stated: item 1 and item 2 of a row are the summaries of the first
\* and the second clashobject child of the row's clashresult; a clashobject
\* lying deeper is never used.
C23_ItemsFromChildren ==
    Exported =>
        \A i \in 1..Len(ws) :
            /\ ws[i].item1_text = NthSummary(ObjectChildren(ws[i].elem), 1)
            /\ ws[i].item2_text = NthSummary(ObjectChildren(ws[i].elem), 2)

\* C23 amended: item 1 and item 2 of a row are the summaries of the first and
\* the second clashobject below the row's clashresult at any depth, in
\* document order; with exactly one such clashobject item 2 is empty.
C23_ItemsFromObjectsBelow ==
    Exported =>
        \A i \in 1..Len(ws) :
            /\ ws[i].item1_text = NthSummary(ObjectsBelow(ws[i].elem), 1)
            /\ ws[i].item2_text = NthSummary(ObjectsBelow(ws[i].elem), 2)

\* C23 witness: a result with no clashobject child whose only clashobject
\* lies deeper; the row has that object's summary as item 1 and an empty
\* item 2.
C23_Witness ==
    /\ Exported
    /\ \E i \in 1..Len(ws) :
          /\ ObjectChildren(ws[i].elem) = {}
          /\ Cardinality(ObjectsBelow(ws[i].elem)) = 1
          /\ ws[i].item1_text = "Item Name: P1"
          /\ ws[i].item2_text = ""

\* C26: after export_to_excel, the group of row i of the Clash Report sheet
\* equals the group of row i of the Clash_Points sheet.
C26_SameGroupOnBothSheets ==
    pc = "excel" =>
        /\ Len(cp) = Len(ws)
        /\ \A i \in 1..Len(ws) : ws[i].clash_group = cp[i].clash_group

(***************************************************************************)
(* Properties of get_item_details (SpecItem)                               *)
(***************************************************************************)
\* the trimmed name of smarttag k of the clashobject
TagName(k) == Str(strip(findtext(obj[k], "name")))

\* the trimmed value of smarttag k of the clashobject
TagValue(k) == Str(strip(findtext(obj[k], "value")))

\* the clashobject without the smarttags that a later smarttag of the same
\* trimmed name follows
LastOfEachName ==
    LET keep == {k \in 1..Len(obj) :
                    \A m \in 1..Len(obj) : m > k => TagName(m) # TagName(k)}
        F[k \in 0..Len(obj)] ==
            IF k = 0 THEN <<>>
            ELSE IF k \in keep THEN Append(F[k - 1], obj[k]) ELSE F[k - 1]
    IN  F[Len(obj)]

\* the clashobject without the smarttags whose trimmed name or trimmed value
\* is empty
WithoutEmptyTags ==
    LET F[k \in 0..Len(obj)] ==
            IF k = 0 THEN <<>>
            ELSE IF TagName(k) # "" /\ TagValue(k) # "" THEN Append(F[k - 1], obj[k])
            ELSE F[k - 1]
    IN  F[Len(obj)]

ItemNameTag(v) == [name |-> <<<<"Item Name">>>>, value |-> v]

\* C8: of several smarttags with the same name the last one in document
\* order decides: the summary is the one the object gives with only the last
\* smarttag of each name kept, and Item Name = A followed by Item Name = B
\* gives the line "Item Name: B".
C8_LastTagWins ==
    pc = "done" =>
        /\ item_v6 = get_item_details(LastOfEachName)
        /\ obj = <<ItemNameTag(<<<<"A">>>>), ItemNameTag(<<<<"B">>>>)>>
              => item_v6 = "Item Name: B"

\* C8 witness: Item Name = A then Item Name = B resolved to "Item Name: B".
C8_Witness ==
    /\ pc = "done"
    /\ obj = <<ItemNameTag(<<<<"A">>>>), ItemNameTag(<<<<"B">>>>)>>
    /\ item_v6 = "Item Name: B"

\* C9: a smarttag whose trimmed name or trimmed value is empty has no effect:
\* the summary of get_item_details (v6, Word v4) is the one the object gives
\* without those smarttags, so Item Name = A followed by an Item Name with an
\* empty value still gives "Item Name: A".
C9_EmptyTagsDropped ==
    pc = "done" => item_v6 = get_item_details(WithoutEmptyTags)

(***************************************************************************)
(* Properties of find_image_file (SpecImage)                               *)
(***************************************************************************)
\* the reference is None or the empty string
NoReference == href_raw = <<>> \/ href_raw[1] = <<>>

\* the reference with backslashes turned and outer whitespace removed
CleanHref == strip(replace_backslash(attr_get(href_raw, <<>>)))

\* the four candidates in their stated order; the first only for a
\* syntactically absolute reference
Cand1 == Path(CleanHref)
Cand2 == path_join(xml_dir, Path(CleanHref))
Cand3 == path_child(xml_dir, path_name(Path(CleanHref)))
Cand4 == path_child(path_child(xml_dir, "ELV_files"), path_name(Path(CleanHref)))
StatedOrder ==
    (IF Cand1.root # "" THEN <<Cand1>> ELSE <<>>) \o <<Cand2, Cand3, Cand4>>

OnDisk(p) == abs_parts(p) \in fs

\* C6: find_image_file probes the candidates in the stated order, stops at
\* the first that exists and returns it (resolved); a candidate after the
\* returned one is never probed, and None is returned only after all were
\* probed and none exists.
C6_FirstExistingCandidate ==
    (pc = "done" /\ ~NoReference) =>
        LET n == Len(img.probes)
        IN  /\ n <= Len(StatedOrder)
            /\ img.probes = SubSeq(StatedOrder, 1, n)
            /\ \A k \in 1..(n - 1) : ~OnDisk(StatedOrder[k])
            /\ IF img.path = <<>>
               THEN n = Len(StatedOrder) /\ ~OnDisk(StatedOrder[n])
               ELSE /\ n >= 1
                    /\ OnDisk(StatedOrder[n])
                    /\ img.path[1] = resolve(StatedOrder[n], resolve_raises)

\* C6 witness: a relative reference with a directory part; the file is
\* missing at document directory + reference, present at document directory
\* + basename and at ELV_files + basename; the basename candidate was
\* returned and ELV_files was not probed.
C6_Witness ==
    /\ pc = "done"
    /\ ~NoReference
    /\ Cand1.root = ""
    /\ ~OnDisk(Cand2) /\ OnDisk(Cand3) /\ OnDisk(Cand4)
    /\ img.path = <<resolve(Cand3, resolve_raises)>>
    /\ img.probes = <<Cand2, Cand3>>

\* C7: find_image_file returns None when no candidate exists, and for an
\* empty or missing reference it returns None with no existence probe made.
C7_NotFoundSentinel ==
    pc = "done" =>
        /\ NoReference => img.path = <<>> /\ img.probes = <<>>
        /\ (~NoReference /\ \A k \in 1..Len(StatedOrder) : ~OnDisk(StatedOrder[k]))
               => img.path = <<>>

\* C7 witness: an absolute reference none of whose four candidates exists,
\* answered None after four probes.
C7_Witness ==
    /\ pc = "done"
    /\ ~NoReference
    /\ Cand1.root # ""
    /\ \A k \in 1..Len(StatedOrder) : ~OnDisk(StatedOrder[k])
    /\ img.path = <<>>
    /\ Len(img.probes) = 4

\* the document's directory and the directories above it
KnownDirectory(q) ==
    LET dir == abs_parts(xml_dir)
    IN  Len(q) <= Len(dir) /\ q = SubSeq(dir, 1, Len(q))

\* the reference holds whitespace only
BlankReference ==
    /\ href_raw # <<>> /\ href_raw[1] # <<>>
    /\ \A k \in 1..Len(href_raw[1]) : href_raw[1][k] = " "

\* C27: find_image_file returns None or one of its candidates that exists
\* and is a file, never a directory; a reference of whitespace only gives
\* None and not the document's directory.
C27_ReturnsFileOrNone ==
    pc = "done" =>
        /\ img.path # <<>> =>
              /\ \E k \in 1..Len(StatedOrder) :
                     img.path[1] = resolve(StatedOrder[k], resolve_raises)
              /\ OnDisk(img.path[1])
              /\ ~KnownDirectory(abs_parts(img.path[1]))
        /\ BlankReference => img.path = <<>>


(***************************************************************************)
(* Properties of the summary and the short name (SpecFields)               *)
(***************************************************************************)
\* the trimmed value of the last smarttag of the clashobject named key, or ""
FieldValue(key) ==
    LET K == {k \in 1..Len(obj) : TagName(k) = key}
    IN  IF K = {} THEN "" ELSE TagValue(Greatest(K))

\* the non-empty strings of a sequence joined by line breaks
RECURSIVE JoinPresent(_)
JoinPresent(q) ==
    IF q = <<>> THEN ""
    ELSE IF Head(q) = "" THEN JoinPresent(Tail(q))
    ELSE IF JoinPresent(Tail(q)) = "" THEN Head(q)
    ELSE Head(q) \o "\n" \o JoinPresent(Tail(q))

ItemNameLine ==
    IF FieldValue("Item Name") = "" THEN "" ELSE "Item Name: " \o FieldValue("Item Name")

NetworkLine ==
    IF FieldValue("Civil3D General:Network name") = "" THEN ""
    ELSE "Network: " \o FieldValue("Civil3D General:Network name")

\* part size name and item type, joined by one space when both are there
TypeText ==
    LET part == FieldValue("Civil3D General:Part Size Name")
        itype == FieldValue("Item Type")
    IN  CASE part # "" /\ itype # "" -> part \o " " \o itype
          [] part # "" /\ itype = "" -> part
          [] part = "" /\ itype # "" -> itype
          [] OTHER -> ""

ItemTypeLine == IF TypeText = "" THEN "" ELSE "Item Type: " \o TypeText

\* "Pipe {inner} x {outer}", trimmed, when one of the two is there
PipeLine ==
    LET inner == FieldValue("Civil3D General:Inner Diameter or Width")
        outer == FieldValue("Civil3D General:Outer Diameter or Width")
    IN  CASE inner # "" /\ outer # "" -> "Pipe " \o inner \o " x " \o outer
          [] inner # "" /\ outer = "" -> "Pipe " \o inner \o " x"
          [] inner = "" /\ outer # "" -> "Pipe  x " \o outer
          [] OTHER -> ""

C12_ItemTypeLine ==
    (pc = "done" /\ PipeLine = "") =>
        LET part == FieldValue("Civil3D General:Part Size Name")
            itype == FieldValue("Item Type")
            line == CASE part # "" /\ itype # "" -> "Item Type: " \o part \o " " \o itype
                      [] part # "" /\ itype = "" -> "Item Type: " \o part
                      [] part = "" /\ itype # "" -> "Item Type: " \o itype
                      [] OTHER -> ""
        IN  item_v6 = JoinPresent(<<ItemNameLine, NetworkLine, line>>)

\* C12 witness: only the item type is populated (the part size name is
\* blank) and the line holds it alone.
C12_Witness ==
    /\ pc = "done"
    /\ \E k \in 1..Len(obj) : TagName(k) = "Civil3D General:Part Size Name"
    /\ FieldValue("Civil3D General:Part Size Name") = ""
    /\ item_v6 = "Item Type: T"

\* C13: the pipe line is there exactly when the inner or the outer diameter
\* has a non-empty value, and it is "Pipe {inner} x {outer}" with an absent
\* side empty and the outer whitespace trimmed; it is the summary's last line.
C13_PipeLine ==
    pc = "done" =>
        LET inner == FieldValue("Civil3D General:Inner Diameter or Width")
            outer == FieldValue("Civil3D General:Outer Diameter or Width")
            line == IF inner = "" /\ outer = "" THEN ""
                    ELSE IF outer = "" THEN "Pipe " \o inner \o " x"
                    ELSE "Pipe " \o inner \o " x " \o outer
        IN  item_v6 = JoinPresent(<<ItemNameLine, NetworkLine, ItemTypeLine, line>>)

\* C13 witness: only the inner diameter is populated; the line is "Pipe 5 x".
C13_Witness ==
    /\ pc = "done"
    /\ FieldValue("Civil3D General:Inner Diameter or Width") = "5"
    /\ FieldValue("Civil3D General:Outer Diameter or Width") = ""
    /\ item_v6 = "Pipe 5 x"

\* C14: the short name is the Item Name value when the summary has an Item
\* Name line, otherwise the first line of the summary, otherwise "Unknown"
\* (get_item_name_short of v6 / Word v4 and short_item_name of Excel v4).
C14_ShortName ==
    pc = "done" =>
        LET expected ==
                IF FieldValue("Item Name") # "" THEN FieldValue("Item Name")
                ELSE IF NetworkLine # "" THEN NetworkLine
                ELSE IF ItemTypeLine # "" THEN ItemTypeLine
                ELSE IF PipeLine # "" THEN PipeLine
                ELSE "Unknown"
        IN  short_v6 = expected /\ short_v4 = expected

(***************************************************************************)
(* Properties of a run on a source file (SpecRun)                          *)
(***************************************************************************)
\* the text of an axis attribute is there and is not a number
AxisFails(a) == a # <<>> /\ a[1] # <<>> /\ parse_float(a[1]) = <<>>

\* the result has a position with an axis that is not a number
BadPosition(r) ==
    /\ r.pos # <<>>
    /\ AxisFails(r.pos[1].x) \/ AxisFails(r.pos[1].y) \/ AxisFails(r.pos[1].z)

\* C15: in a completed run, the clash name of record i is the name attribute,
\* or "Clash " followed by i when there is none; the distance is the distance
\* attribute, or "N/A" when there is none.
C15_NameAndDistanceFallback ==
    (Exported /\ source = "wellformed" /\ outcome = "returned") =>
        \A i \in 1..Len(ws) :
            /\ ws[i].clash_name = (IF results[i].name = <<>> THEN "Clash " \o ToString(i)
                                   ELSE results[i].name[1])
            /\ ws[i].distance = (IF results[i].distance = <<>> THEN "N/A"
                                 ELSE results[i].distance[1])

\* C16: a run on a well-formed document returns normally, writes the output
\* file and emits one record per clashresult (on both sheets for Excel),
\* whatever optional data is missing or malformed.
C16_NeverRaisesOnOptionalData ==
    (Exported /\ source = "wellformed") =>
        /\ outcome = "returned"
        /\ written
        /\ Len(ws) = Len(results)
        /\ pc = "excel" => Len(cp) = Len(results)

\* C17: in the Clash Report rows of export_to_excel, a result whose position
\* has an axis that fails to parse has an empty coordinate text.
C17_CoordsAllOrNothing ==
    pc = "excel" =>
        \A i \in 1..Len(ws) : BadPosition(results[i]) => ws[i].coords_text = ""

\* C17 witness: x and y of a result parse, z does not, and the row's
\* coordinate text is empty.
C17_Witness ==
    /\ pc = "excel"
    /\ \E i \in 1..Len(ws) :
          /\ results[i].pos # <<>>
          /\ ~AxisFails(results[i].pos[1].x) /\ results[i].pos[1].x # <<>>
          /\ ~AxisFails(results[i].pos[1].y)
          /\ AxisFails(results[i].pos[1].z)
          /\ ws[i].coords_text = ""

\* C18: in a completed run of either exporter, a position whose axes are all
\* numbers is rendered as the three values in 3-decimal notation, each
\* followed by m, separated by a comma and a line break; x="1", y="2.5",
\* z="-3.25" give "1.000m,\n2.500m,\n-3.250m".
C18_CoordinateRendering ==
    (Exported /\ source = "wellformed" /\ outcome = "returned") =>
        \A i \in 1..Len(ws) :
            (results[i].pos # <<>> /\ ~BadPosition(results[i])) =>
                LET p == results[i].pos[1]
                IN  /\ ws[i].coords_text =
                            format_3f(float_of(p.x)[1]) \o "m,\n"
                            \o format_3f(float_of(p.y)[1]) \o "m,\n"
                            \o format_3f(float_of(p.z)[1]) \o "m"
                    /\ (p.x = <<<<"1">>>> /\ p.y = <<<<"2", ".", "5">>>>
                        /\ p.z = <<<<"-", "3", ".", "2", "5">>>>)
                       => ws[i].coords_text = "1.000m,\n2.500m,\n-3.250m"

\* C19: a run on a file that is not well-formed XML ends with the parse
\* error, with no record handed to the workbook or document and no output
\* file written.
C19_MalformedXmlAborts ==
    (Exported /\ source = "malformed") =>
        /\ outcome = "ParseError"
        /\ ws = <<>> /\ cp = <<>>
        /\ ~written

\* C19 witness: export_to_excel has run on a malformed file and ended with
\* the parse error.
C19_Witness == pc = "excel" /\ source = "malformed" /\ outcome = "ParseError"

\* C20: a run on a source file that does not exist ends in an error the
\* caller can observe, not in a normal return.
C20_MissingFilePropagates ==
    (Exported /\ source = "missing") => outcome # "returned"

\* C22: the Word table of a document holds in RFI No., Clash Details, Item 1
\* and Item 2 of record i the text that the Clash Report sheet of the same
\* document holds in the columns of the same name.
C22_WordColumnsLikeExcel ==
    (pc = "word" /\ source = "wellformed") =>
        \E xl \in {excel_run(source, results).ws} :
            /\ Len(ws) = Len(xl)
            /\ \A i \in 1..Len(ws) :
                  /\ ws[i].rfi = ToString(xl[i].rfi)
                  /\ ws[i].clash_details = xl[i].clash_details
                  /\ ws[i].item1_text = xl[i].item1_text
                  /\ ws[i].item2_text = xl[i].item2_text

(***************************************************************************)
(* Properties of discover_fields (SpecDiscover)                            *)
(***************************************************************************)
\* the tags from the root down to element n, joined by "/"
RECURSIVE PathOf(_)
PathOf(n) ==
    IF doc[n].parent = 0 THEN doc[n].tag
    ELSE PathOf(doc[n].parent) \o <<"/">> \o doc[n].tag

\* element n has non-blank text
NonBlankText(n) ==
    /\ doc[n].text # <<>>
    /\ \E k \in 1..Len(doc[n].text[1]) : doc[n].text[1][k] \notin {" ", "\n"}

HasChild(n) == \E j \in 1..Len(doc) : doc[j].parent = n

\* a list of strings is strictly increasing (sorted, no duplicate)
StrictlySorted(q) == \A i \in 1..(Len(q) - 1) : lex_less(q[i], q[i + 1])

\* C21: discover_fields returns two sorted duplicate-free lists: elements
\* holds exactly the paths of the nodes with non-blank text or a child,
\* attributes holds exactly path + "/@" + name for every attribute of every
\* node.
C21_DiscoveredFields ==
    pc = "discovered" =>
        /\ StrictlySorted(elements)
        /\ StrictlySorted(attributes)
        /\ {elements[i] : i \in 1..Len(elements)}
               = {PathOf(n) : n \in {k \in 1..Len(doc) : NonBlankText(k) \/ HasChild(k)}}
        /\ {attributes[i] : i \in 1..Len(attributes)}
               = {PathOf(n[1]) \o <<"/", "@">> \o doc[n[1]].attrs[n[2]] :
                     n \in {x \in (1..Len(doc)) \X (1..2) : x[2] <= Len(doc[x[1]].attrs)}}

\* C21 witness: <a><b x="1">text</b><b y=".." x="..">(blank)</b></a> gives
\* elements a, a/b and attributes a/b/@x, a/b/@y: the two b siblings are one
\* entry, and the blank childless b still lists its attributes.
C21_Witness ==
    /\ pc = "discovered"
    /\ Len(doc) = 3
    /\ doc[2].parent = 1 /\ doc[3].parent = 1
    /\ NonBlankText(2) /\ ~NonBlankText(3) /\ Len(doc[3].attrs) = 2
    /\ elements = << <<"a">>, <<"a", "/", "b">> >>
    /\ attributes = << <<"a", "/", "b", "/", "@", "x">>,
                       <<"a", "/", "b", "/", "@", "y">> >>

(***************************************************************************)
(* Properties of the readers of the tree (SpecFrame)                       *)
(***************************************************************************)
\* C30: a step that is a run of export_to_excel, export_to_word or
\* discover_fields leaves the element tree as it was after parsing.
C30_SourceTreeUnchanged ==
    [][pc' \in {"excel", "word", "discovered"} => doc' = doc]_vars

\* C30 witness: a run has ended on a document of three elements and has
\* produced output from it.
C30_Witness ==
    /\ Len(doc) >= 3
    /\ \/ Exported /\ Len(ws) >= 1
       \/ pc = "discovered" /\ Len(elements) >= 1

(***************************************************************************)
(* Properties of export_to_excel of export_xml_to_excel_v1.py (SpecV1)     *)
(***************************************************************************)
\* C24: export_to_excel (v1) writes exactly one row per clashresult of the
\* document, numbered 1..N: none is left out, none is written twice.
C24_V1OneRowPerClashresult ==
    pc = "excel_v1" =>
        /\ Len(ws) = Cardinality(ResultElems)
        /\ \A i \in 1..Len(ws) : ws[i].id = i
        /\ \A j \in ResultElems :
              Cardinality({i \in 1..Len(ws) : ws[i].elem = j}) = 1

(***************************************************************************)
(* Properties of find_image_file of export_xml_to_excel_v2.py (SpecImageV2) *)
(***************************************************************************)
\* C25: for a non-empty reference, with or without directory separators,
\* when the basename inside ELV_files of the document's directory is the only
\* candidate that exists, find_image_file (v2) returns it.
C25_V2TriesElvFiles ==
    (/\ pc = "done_v2"
     /\ ~NoReference /\ CleanHref # <<>>
     /\ OnDisk(Cand4)
     /\ ~OnDisk(Cand2) /\ ~OnDisk(Cand3)
     /\ Cand1.root # "" => ~OnDisk(Cand1))
        => img.path = <<resolve(Cand4, resolve_raises)>>

(***************************************************************************)
(* Properties of the temporary image files (SpecTemp)                      *)
(***************************************************************************)
\* C28: when export_to_excel or export_to_word has ended, by returning or by
\* raising, no temporary image file created during the run is left on disk.
C28_TempImagesDeleted ==
    Exported => tmp_disk = {}

(***************************************************************************)
(* Properties of the Export clicks (SpecGui)                               *)
(***************************************************************************)
\* C29 as stated: a do_export call whose exporter returned without raising
\* makes last_path.txt and the status label the folder of its output path;
\* every other call leaves both unchanged.
C29_LastFolderOnSuccessOnly ==
    [][IF click'[1].stage = "saved"
       THEN /\ last_path_file' = click'[1].out
            /\ status_var' = click'[1].out[1]
       ELSE UNCHANGED <<last_path_file, status_var>>]_vars

\* C29 amended: a do_export call whose exporter returned without raising
\* makes the status label the folder of its output path, and last_path.txt
\* too unless writing that file fails, which leaves the file as it was;
\* every other call leaves both unchanged.
C29_LastFolderUnlessWriteFails ==
    [][IF click'[1].stage = "saved"
       THEN /\ status_var' = click'[1].out[1]
            /\ IF click'[1].write_ok THEN last_path_file' = click'[1].out
               ELSE last_path_file' = last_path_file
       ELSE UNCHANGED <<last_path_file, status_var>>]_vars

\* C29 witness: after a successful export into folder q whose write of
\* last_path.txt failed, the label shows q and the file still holds p.
C29_Witness ==
    /\ click # <<>>
    /\ click[1].stage = "saved" /\ ~click[1].write_ok
    /\ status_var = "q"
    /\ last_path_file = <<"p">>

====
